---- MODULE Spec2Model ----
(***************************************************************************)
(* Session registry and relay routing of the two-way relay bot (bot.py).   *)
(*                                                                         *)
(* The shared state is the four module-level collections of bot.py.  The   *)
(* command handler and every branch of the button handler read and write   *)
(* that state in one await-free stretch of code and only send messages     *)
(* afterwards, so each is one action.  The message handler reads the       *)
(* state, awaits msg.copy and writes the routing maps after the await.     *)
(*                                                                         *)
(* Spec is the application as main() builds it: updates are handled one    *)
(* at a time, each handler runs to its end, and the step it took is        *)
(* recorded in `last`.  SpecConcurrent splits the message handler at the   *)
(* await of msg.copy, so that other updates are handled while copies are   *)
(* in flight; it does not record steps.  SpecInterleaved splits the button *)
(* handler at the await of query.answer(), the only await before a branch  *)
(* reads the sets, so that any number of button handlers are suspended     *)
(* there while others run; it keeps the steps taken in `handled`.          *)
(*                                                                         *)
(* Every outbound send can fail; a failure outside a try block raises and  *)
(* ends the handler, a failure inside one runs the except branch.          *)
(*                                                                         *)
(* Left out, as they write none of the four collections: /start, /help,    *)
(* /panel and the buttons admin_view_pending, admin_view_active and        *)
(* admin_hint_connect.  Sessions are drawn for the ids in Users; events    *)
(* are drawn for every id in Ids.  Message ids count the copies made in a  *)
(* chat: the transport gives each copy in the operator's chat the next id  *)
(* of that chat, and a copy in a user's chat any id of that chat.          *)
(***************************************************************************)
EXTENDS Integers, Sequences, FiniteSets, Bags

\* ---------------------------------------------------------------- bounds
\* Largest message id handed out in any chat.
MaxMsgId == 2
\* Largest number of copies in flight at once (SpecConcurrent).
MaxInFlight == 2
\* Largest number of button and command events (SpecInterleaved).
MaxEvents == 3

\* ---------------------------------------------------------------- config
ADMIN_ID == 9
Users == {1, 2}
Ids == Users \cup {ADMIN_ID}
MsgIds == 1..MaxMsgId

VARIABLES
    pending_requests,       \* set of user ids waiting for approval
    active_sessions,        \* set of user ids currently connected
    admin_msgid_to_user,    \* dict: operator-side message id -> user id
    user_last_admin_msgid,  \* dict: user id -> message id
    admin_chat,             \* the operator's chat: admin_chat[m] is the user whose
                            \* message was copied there as message m
    copying,                \* the msg.copy calls in flight
    last,                   \* the handler step taken last and what it sent
    answering,              \* the button events whose handler awaits query.answer()
    handled                 \* the steps taken, in the order they were taken

vars == <<pending_requests, active_sessions, admin_msgid_to_user,
          user_last_admin_msgid, admin_chat, copying, last, answering, handled>>

registry == <<pending_requests, active_sessions>>
routing == <<admin_msgid_to_user, user_last_admin_msgid>>
interleaved == <<answering, handled>>

\* ------------------------------------------------------------- helpers
\* d[k] = v on a dict.
DictSet(d, k, v) == [x \in DOMAIN d \cup {k} |-> IF x = k THEN v ELSE d[x]]

\* One outbound send: the chat it goes to, which text, which keyboard, and
\* whether the transport delivered it.
Msg(to, text, menu, ok) == [to |-> to, text |-> text, menu |-> menu, ok |-> ok]

\* The record of one handler step: the handler branch, who sent the event, the
\* user id it is about, the branch taken, and the sends it made.
Step(h, sender, uid, result, out) ==
    [h |-> h, sender |-> sender, uid |-> uid, result |-> result, out |-> out]

\* A msg.copy in flight: whose message, to which chat, and for an operator
\* reply the id it replies to (0 for a user's message).
Copy(from, to, reply) == [from |-> from, to |-> to, reply |-> reply]

\* The delivery outcomes of the sends of one step, in the order the code
\* makes them.
Oks == [1..3 -> BOOLEAN]

user_main_keyboard(is_pending, is_active) ==
    IF is_active THEN "user_end"
    ELSE IF is_pending THEN "user_cancel"
    ELSE "user_apply"

\* ------------------------------------------------- registry transitions
\* Each takes the two sets and a user id and gives the sets afterwards with
\* the branch taken.
Reg(P, A, result) == [pending |-> P, active |-> A, result |-> result]

\* A variant that does not look at the pending set.
requestConnection_NoPendingCheck(P, A, uid) ==
    IF uid \in A THEN Reg(P, A, "AlreadyActive")
    ELSE Reg(P \cup {uid}, A, "Accepted")

requestConnection(P, A, uid) ==
    IF uid \in A THEN Reg(P, A, "AlreadyActive")
    ELSE IF uid \in P THEN Reg(P, A, "AlreadyPending")
    ELSE Reg(P \cup {uid}, A, "Accepted")

\* A variant that empties the pending set.
cancelRequest_ClearsAll(P, A, uid) ==
    IF uid \in P THEN Reg({}, A, "Cancelled")
    ELSE Reg(P, A, "NotPending")

cancelRequest(P, A, uid) ==
    IF uid \in P THEN Reg(P \ {uid}, A, "Cancelled")
    ELSE Reg(P, A, "NotPending")

endByUser(P, A, uid) ==
    IF uid \in A THEN Reg(P, A \ {uid}, "Ended")
    ELSE Reg(P, A, "NotActive")

\* A variant that leaves the user in the pending set.
approve_KeepsPending(P, A, uid) ==
    IF uid \in P THEN Reg(P, A \cup {uid}, "Approved")
    ELSE Reg(P, A, "NotPending")

\* A variant that approves whoever is named, pending or not.
approve_NoPendingCheck(P, A, uid) == Reg(P \ {uid}, A \cup {uid}, "Approved")

approve(P, A, uid) ==
    IF uid \in P THEN Reg(P \ {uid}, A \cup {uid}, "Approved")
    ELSE Reg(P, A, "NotPending")

\* A variant that ends the session of a user who is not pending.
reject_EndsSession(P, A, uid) ==
    IF uid \in P THEN Reg(P \ {uid}, A, "Rejected")
    ELSE Reg(P, A \ {uid}, "NotPending")

reject(P, A, uid) ==
    IF uid \in P THEN Reg(P \ {uid}, A, "Rejected")
    ELSE Reg(P, A, "NotPending")

\* A variant that discards from the wrong set.
endByOperator_WrongSet(P, A, uid) ==
    IF uid \in A THEN Reg(P \ {uid}, A, "Ended")
    ELSE Reg(P, A, "NotActive")

endByOperator(P, A, uid) ==
    IF uid \in A THEN Reg(P, A \ {uid}, "Ended")
    ELSE Reg(P, A, "NotActive")

\* A variant without pending_requests.discard(uid).
forceConnect_KeepsPending(P, A, uid) == Reg(P, A \cup {uid}, "Connected")

forceConnect(P, A, uid) == Reg(P \ {uid}, A \cup {uid}, "Connected")

\* ------------------------------------------------------------------ Init
Init ==
    /\ pending_requests = {}
    /\ active_sessions = {}
    /\ admin_msgid_to_user = << >>
    /\ user_last_admin_msgid = << >>
    /\ admin_chat = << >>
    /\ copying = {}
    /\ last = Step("start", ADMIN_ID, ADMIN_ID, "Started", {})
    /\ answering = EmptyBag
    /\ handled = << >>

\* ------------------------------------------------------- what is sent
\* Each gives the sends of one branch.  ok[i] is the outcome of the i-th
\* send; a send outside try that fails raises, so the later ones are not made.

user_apply_out(uid, result, ok) ==
    IF result = "AlreadyActive"
    THEN {Msg(uid, "already_in_session", "none", ok[1])}
    ELSE IF result = "AlreadyPending"
    THEN {Msg(uid, "already_applied", user_main_keyboard(TRUE, FALSE), ok[1])}
    ELSE {Msg(uid, "apply_sent", user_main_keyboard(TRUE, FALSE), ok[1])}
         \cup (IF ok[1]
               THEN {Msg(ADMIN_ID, "new_request", "pending_item", ok[2])}
               ELSE {})

user_cancel_out(uid, result, ok) ==
    IF result = "Cancelled"
    THEN {Msg(uid, "cancelled", user_main_keyboard(FALSE, FALSE), ok[1])}
         \cup (IF ok[1]
               THEN {Msg(ADMIN_ID, "cancel_notice", "none", ok[2])}
               ELSE {})
    ELSE {Msg(uid, "no_request", user_main_keyboard(FALSE, FALSE), ok[1])}

user_end_out(uid, result, ok) ==
    IF result = "Ended"
    THEN {Msg(ADMIN_ID, "user_ended_notice", "none", ok[1]),
          Msg(uid, "ended", user_main_keyboard(FALSE, FALSE), ok[2])}
    ELSE {Msg(uid, "no_session", user_main_keyboard(FALSE, FALSE), ok[1])}

admin_accept_out(sender, uid, result, ok) ==
    IF result = "Approved"
    THEN {Msg(sender, "accepted", "none", ok[1])}
         \cup (IF ok[1]
               THEN {Msg(uid, "accepted_user", "none", ok[2]),
                     Msg(ADMIN_ID, "connected_notice", "none", ok[3])}
               ELSE {})
    ELSE {Msg(sender, "not_pending", "none", ok[1])}

admin_reject_out(sender, uid, result, ok) ==
    IF result = "Rejected"
    THEN {Msg(sender, "rejected", "none", ok[1])}
         \cup (IF ok[1] THEN {Msg(uid, "rejected_user", "none", ok[2])} ELSE {})
    ELSE {Msg(sender, "not_pending", "none", ok[1])}

admin_end_out(sender, uid, result, ok) ==
    IF result = "Ended"
    THEN {Msg(sender, "ended_by_admin", "none", ok[1])}
         \cup (IF ok[1] THEN {Msg(uid, "ended_user", "none", ok[2])} ELSE {})
    ELSE {Msg(sender, "not_active", "none", ok[1])}

connect_out(sender, uid, ok) ==
    {Msg(sender, "connected", "none", ok[1])}
    \cup (IF ok[1] THEN {Msg(uid, "connected_user", "none", ok[2])} ELSE {})
    \cup (IF ok[1] /\ ~ok[2]
          THEN {Msg(sender, "notify_failed", "none", ok[3])}
          ELSE {})

\* ------------------------------------------------------------- routing
\* A variant with key and value swapped.
recordRelay_Swapped(R, m, u) == DictSet(R, u, m)

recordRelay(R, m, u) == DictSet(R, m, u)

\* A variant that resolves a known id to any user.
resolveUser_AnyUser(R, m) == IF m \in DOMAIN R THEN Users ELSE {}

\* The user a message id resolves to, as a set: empty when it is no key.
resolveUser(R, m) == IF m \in DOMAIN R THEN {R[m]} ELSE {}

\* A variant in which the transport hands out the latest id again.
NextAdminMsgId_Reused == IF admin_chat = << >> THEN 1 ELSE Len(admin_chat)

\* The id the transport gives the next copy in the operator's chat.
NextAdminMsgId == Len(admin_chat) + 1

\* What the message handler sends once msg.copy has returned or raised.
user_copy_out(u, ok) ==
    IF ok[1]
    THEN {Msg(ADMIN_ID, "copy", "none", TRUE)}
    ELSE {Msg(ADMIN_ID, "copy", "none", FALSE),
          Msg(u, "relay_failed", "none", ok[2])}

admin_copy_out(target_user, ok) ==
    IF ok[1]
    THEN {Msg(target_user, "copy", "none", TRUE),
          Msg(ADMIN_ID, "sent_to_user", "none", ok[2])}
         \cup (IF ~ok[2]
               THEN {Msg(ADMIN_ID, "send_failed", "none", ok[3])}
               ELSE {})
    ELSE {Msg(target_user, "copy", "none", FALSE),
          Msg(ADMIN_ID, "send_failed", "none", ok[2])}

\* --------------------------------------------------------------- actions
\* obs says whether the step is recorded in `last`.
Record(obs, step) == last' = IF obs THEN step ELSE last

\* Registry update of a button or command step.
Settle(obs, h, sender, uid, r, out) ==
    /\ pending_requests' = r.pending
    /\ active_sessions' = r.active
    /\ Record(obs, Step(h, sender, uid, r.result, out))
    /\ UNCHANGED <<routing, admin_chat, copying, interleaved>>

\* A step that changes nothing but reports.
Report(obs, h, sender, uid, result, out) ==
    /\ Record(obs, Step(h, sender, uid, result, out))
    /\ UNCHANGED <<registry, routing, admin_chat, copying, interleaved>>

\* /connect sent by someone who is not the operator.
ConnectIgnored(obs, sender) ==
    /\ sender # ADMIN_ID
    /\ Report(obs, "connect", sender, sender, "Ignored", {})

\* /connect sent by the operator without an argument (args = "none") or with
\* one that is no number (args = "text").
ConnectBadArgs(obs, sender, args) ==
    /\ sender = ADMIN_ID
    /\ \E ok \in BOOLEAN :
          IF args = "none"
          THEN Report(obs, "connect", sender, sender, "Usage",
                      {Msg(sender, "usage", "none", ok)})
          ELSE Report(obs, "connect", sender, sender, "BadId",
                      {Msg(sender, "must_be_number", "none", ok)})

\* /connect <uid> sent by the operator.
ConnectCmd(obs, sender, uid) ==
    /\ sender = ADMIN_ID
    /\ \E out \in {connect_out(sender, uid, ok) : ok \in Oks} :
          Settle(obs, "connect", sender, uid,
                 forceConnect(pending_requests, active_sessions, uid), out)

\* query.answer() raises: the button handler ends before it reads the data.
CallbackAnswerFails(obs, sender) ==
    Report(obs, "callback", sender, sender, "Raised", {})

UserApply(obs, sender) ==
    LET r == requestConnection(pending_requests, active_sessions, sender)
    IN \E out \in {user_apply_out(sender, r.result, ok) : ok \in Oks} :
          Settle(obs, "user_apply", sender, sender, r, out)

UserCancel(obs, sender) ==
    LET r == cancelRequest(pending_requests, active_sessions, sender)
    IN \E out \in {user_cancel_out(sender, r.result, ok) : ok \in Oks} :
          Settle(obs, "user_cancel", sender, sender, r, out)

UserEnd(obs, sender) ==
    LET r == endByUser(pending_requests, active_sessions, sender)
    IN \E out \in {user_end_out(sender, r.result, ok) : ok \in Oks} :
          Settle(obs, "user_end", sender, sender, r, out)

\* The three operator buttons carry "<tag>:<payload>".  BadId is the branch of
\* a payload that is no number, under tag h.
BadId(obs, h, sender) ==
    \E ok \in BOOLEAN :
        Report(obs, h, sender, sender, "BadId", {Msg(sender, "bad_id", "none", ok)})

\* The payload is the number uid.
AdminAccept(obs, sender, uid) ==
    LET r == approve(pending_requests, active_sessions, uid)
    IN \E out \in {admin_accept_out(sender, uid, r.result, ok) : ok \in Oks} :
          Settle(obs, "admin_accept", sender, uid, r, out)

AdminReject(obs, sender, uid) ==
    LET r == reject(pending_requests, active_sessions, uid)
    IN \E out \in {admin_reject_out(sender, uid, r.result, ok) : ok \in Oks} :
          Settle(obs, "admin_reject", sender, uid, r, out)

AdminEnd(obs, sender, uid) ==
    LET r == endByOperator(pending_requests, active_sessions, uid)
    IN \E out \in {admin_end_out(sender, uid, r.result, ok) : ok \in Oks} :
          Settle(obs, "admin_end", sender, uid, r, out)

\* A button whose data matches no branch.
Unrecognized(obs, sender) ==
    \E ok \in BOOLEAN :
        Report(obs, "unrecognized", sender, sender, "Unrecognized",
               {Msg(sender, "unrecognized", "none", ok)})

\* ---- the message handler
\* A variant that ends the session when the copy fails.
UserCopyEnds_DropsSession(obs, u) ==
    \E ok \in Oks :
        /\ IF ok[1]
           THEN LET m == NextAdminMsgId
                IN /\ admin_chat' = Append(admin_chat, u)
                   /\ admin_msgid_to_user' = recordRelay(admin_msgid_to_user, m, u)
                   /\ user_last_admin_msgid' = DictSet(user_last_admin_msgid, u, m)
                   /\ UNCHANGED registry
           ELSE /\ active_sessions' = active_sessions \ {u}
                /\ UNCHANGED <<pending_requests, routing, admin_chat>>
        /\ Record(obs, Step("message", u, u,
                            IF ok[1] THEN "Relayed" ELSE "RelayFailed",
                            user_copy_out(u, ok)))
        /\ UNCHANGED interleaved

\* msg.copy(chat_id=ADMIN_ID) of a message of user u has returned or raised.
UserCopyEnds(obs, u) ==
    \E ok \in Oks :
        /\ IF ok[1]
           THEN LET m == NextAdminMsgId
                IN /\ admin_chat' = Append(admin_chat, u)
                   /\ admin_msgid_to_user' = recordRelay(admin_msgid_to_user, m, u)
                   /\ user_last_admin_msgid' = DictSet(user_last_admin_msgid, u, m)
           ELSE UNCHANGED <<routing, admin_chat>>
        /\ Record(obs, Step("message", u, u,
                            IF ok[1] THEN "Relayed" ELSE "RelayFailed",
                            user_copy_out(u, ok)))
        /\ UNCHANGED <<registry, interleaved>>

\* msg.copy(chat_id=target_user) of an operator reply has returned or
\* raised; copied is the id the copy got in the user's chat.
AdminCopyEnds(obs, target_user) ==
    \E ok \in Oks :
        /\ IF ok[1]
           THEN \E copied \in MsgIds :
                   user_last_admin_msgid' =
                       DictSet(user_last_admin_msgid, target_user, copied)
           ELSE UNCHANGED user_last_admin_msgid
        /\ Record(obs, Step("message", ADMIN_ID, target_user,
                            IF ok[1] THEN "Replied" ELSE "ReplyFailed",
                            admin_copy_out(target_user, ok)))
        /\ UNCHANGED <<registry, admin_msgid_to_user, admin_chat, interleaved>>

\* A variant without the pending branch.
UserNotActive_NoPendingBranch(obs, sender) ==
    \E ok \in BOOLEAN :
        Report(obs, "message", sender, sender, "Unrequested",
               {Msg(sender, "please_apply",
                    user_main_keyboard(FALSE, FALSE), ok)})

\* The user path up to msg.copy for a sender who is not Active.
UserNotActive(obs, sender) ==
    \E ok \in BOOLEAN :
        IF sender \in pending_requests
        THEN Report(obs, "message", sender, sender, "Pending",
                    {Msg(sender, "wait_or_cancel",
                         user_main_keyboard(TRUE, FALSE), ok)})
        ELSE Report(obs, "message", sender, sender, "Unrequested",
                    {Msg(sender, "please_apply",
                         user_main_keyboard(FALSE, FALSE), ok)})

\* The operator path for a message that resolves to no user.
AdminNoTarget(obs) ==
    \E ok \in BOOLEAN :
        Report(obs, "message", ADMIN_ID, ADMIN_ID, "NoTarget",
               {Msg(ADMIN_ID, "use_reply_hint", "none", ok)})

\* A plain message from a user, handled to its end.
MessageFromUser(sender) ==
    IF sender \in active_sessions
    THEN /\ Len(admin_chat) < MaxMsgId
         /\ UserCopyEnds(TRUE, sender)
         /\ UNCHANGED copying
    ELSE UserNotActive(TRUE, sender)

\* A plain message from the operator, handled to its end; reply is the id of
\* the message it replies to, 0 when it replies to none.
MessageFromAdmin(reply) ==
    IF reply # 0 /\ resolveUser(admin_msgid_to_user, reply) # {}
    THEN \E target_user \in resolveUser(admin_msgid_to_user, reply) :
            /\ AdminCopyEnds(TRUE, target_user)
            /\ UNCHANGED copying
    ELSE AdminNoTarget(TRUE)

\* ---- the message handler split at the await of msg.copy
CopiesToAdmin == {c \in copying : c.to = ADMIN_ID}

UserMessageArrives(sender) ==
    IF sender \in active_sessions
    THEN /\ Cardinality(copying) < MaxInFlight
         /\ Len(admin_chat) + Cardinality(CopiesToAdmin) < MaxMsgId
         /\ Copy(sender, ADMIN_ID, 0) \notin copying
         /\ copying' = copying \cup {Copy(sender, ADMIN_ID, 0)}
         /\ UNCHANGED <<registry, routing, admin_chat, last, interleaved>>
    ELSE UserNotActive(FALSE, sender)

AdminMessageArrives(reply) ==
    IF reply # 0 /\ resolveUser(admin_msgid_to_user, reply) # {}
    THEN \E target_user \in resolveUser(admin_msgid_to_user, reply) :
            /\ Cardinality(copying) < MaxInFlight
            /\ Copy(ADMIN_ID, target_user, reply) \notin copying
            /\ copying' = copying \cup {Copy(ADMIN_ID, target_user, reply)}
            /\ UNCHANGED <<registry, routing, admin_chat, last, interleaved>>
    ELSE AdminNoTarget(FALSE)

UserCopyDone(c) ==
    /\ c \in copying
    /\ c.to = ADMIN_ID
    /\ copying' = copying \ {c}
    /\ UserCopyEnds(FALSE, c.from)

AdminCopyDone(c) ==
    /\ c \in copying
    /\ c.from = ADMIN_ID
    /\ copying' = copying \ {c}
    /\ AdminCopyEnds(FALSE, c.to)

\* ------------------------------------------------------------------ Next
\* The command and the buttons.
Dispatch(obs) ==
    \/ \E sender \in Ids : ConnectIgnored(obs, sender)
    \/ \E sender \in Ids, args \in {"none", "text"} :
          ConnectBadArgs(obs, sender, args)
    \/ \E sender \in Ids, uid \in Users : ConnectCmd(obs, sender, uid)
    \/ \E sender \in Ids : CallbackAnswerFails(obs, sender)
    \/ \E sender \in Users : UserApply(obs, sender)
    \/ \E sender \in Users : UserCancel(obs, sender)
    \/ \E sender \in Users : UserEnd(obs, sender)
    \/ \E sender \in Ids, h \in {"admin_accept", "admin_reject", "admin_end"} :
          BadId(obs, h, sender)
    \/ \E sender \in Ids, uid \in Users : AdminAccept(obs, sender, uid)
    \/ \E sender \in Ids, uid \in Users : AdminReject(obs, sender, uid)
    \/ \E sender \in Ids, uid \in Users : AdminEnd(obs, sender, uid)
    \/ \E sender \in Ids : Unrecognized(obs, sender)

Next ==
    \/ Dispatch(TRUE)
    \/ \E sender \in Users : MessageFromUser(sender)
    \/ \E reply \in 0..MaxMsgId : MessageFromAdmin(reply)

Spec == Init /\ [][Next]_vars

NextConcurrent ==
    \/ Dispatch(FALSE)
    \/ \E sender \in Users : UserMessageArrives(sender)
    \/ \E reply \in 0..MaxMsgId : AdminMessageArrives(reply)
    \/ \E c \in copying : UserCopyDone(c)
    \/ \E c \in copying : AdminCopyDone(c)

SpecConcurrent == Init /\ [][NextConcurrent]_vars

\* ---- the button handler split at the await of query.answer()
\* The button events that read or write the registry; the operator's
\* buttons are drawn as pressed by the operator.
Callbacks ==
    {[h |-> h, sender |-> u, uid |-> u] :
        h \in {"user_apply", "user_cancel", "user_end"}, u \in Users}
    \cup {[h |-> h, sender |-> ADMIN_ID, uid |-> u] :
            h \in {"admin_accept", "admin_reject", "admin_end"}, u \in Users}

\* The registry transition of the branch event e selects.
Outcome(e, P, A) ==
    CASE e.h = "user_apply" -> requestConnection(P, A, e.uid)
      [] e.h = "user_cancel" -> cancelRequest(P, A, e.uid)
      [] e.h = "user_end" -> endByUser(P, A, e.uid)
      [] e.h = "admin_accept" -> approve(P, A, e.uid)
      [] e.h = "admin_reject" -> reject(P, A, e.uid)
      [] e.h = "admin_end" -> endByOperator(P, A, e.uid)
      [] e.h = "connect" -> forceConnect(P, A, e.uid)

\* The sends of that branch.
Sends(e, result, ok) ==
    CASE e.h = "user_apply" -> user_apply_out(e.uid, result, ok)
      [] e.h = "user_cancel" -> user_cancel_out(e.uid, result, ok)
      [] e.h = "user_end" -> user_end_out(e.uid, result, ok)
      [] e.h = "admin_accept" -> admin_accept_out(e.sender, e.uid, result, ok)
      [] e.h = "admin_reject" -> admin_reject_out(e.sender, e.uid, result, ok)
      [] e.h = "admin_end" -> admin_end_out(e.sender, e.uid, result, ok)
      [] e.h = "connect" -> connect_out(e.sender, e.uid, ok)

\* The stretch of a handler from its read of the sets to its end: the sets
\* are read and written without an await in between, and the awaits that
\* follow are sends, which read and write none of the collections.
Handle(e) ==
    LET r == Outcome(e, pending_requests, active_sessions)
    IN \E out \in {Sends(e, r.result, ok) : ok \in Oks} :
          /\ pending_requests' = r.pending
          /\ active_sessions' = r.active
          /\ handled' = Append(handled, Step(e.h, e.sender, e.uid, r.result, out))
          /\ UNCHANGED <<routing, admin_chat, copying, last>>

\* A button event arrives: its handler starts and awaits query.answer().
CallbackArrives(e) ==
    /\ BagCardinality(answering) + Len(handled) < MaxEvents
    /\ answering' = answering (+) SetToBag({e})
    /\ UNCHANGED <<registry, routing, admin_chat, copying, last, handled>>

\* query.answer() has returned: the handler runs its branch.
CallbackAnswered(e) ==
    /\ BagIn(e, answering)
    /\ answering' = answering (-) SetToBag({e})
    /\ Handle(e)

\* query.answer() has raised: the handler ends.
CallbackAnswerRaises(e) ==
    /\ BagIn(e, answering)
    /\ answering' = answering (-) SetToBag({e})
    /\ UNCHANGED <<registry, routing, admin_chat, copying, last, handled>>

\* /connect <uid> from the operator: connect_cmd awaits nothing before it
\* writes the sets.
ConnectArrives(uid) ==
    /\ BagCardinality(answering) + Len(handled) < MaxEvents
    /\ Handle([h |-> "connect", sender |-> ADMIN_ID, uid |-> uid])
    /\ UNCHANGED answering

NextInterleaved ==
    \/ \E e \in Callbacks : CallbackArrives(e)
    \/ \E e \in Callbacks : CallbackAnswered(e)
    \/ \E e \in Callbacks : CallbackAnswerRaises(e)
    \/ \E uid \in Users : ConnectArrives(uid)

SpecInterleaved == Init /\ [][NextInterleaved]_vars

\* ================================================================ claims
Unrequested(u) == u \notin pending_requests /\ u \notin active_sessions
Pending(u) == u \in pending_requests /\ u \notin active_sessions
Active(u) == u \in active_sessions /\ u \notin pending_requests

Texts(out) == {x.text : x \in out}

\* C1: in every reachable state no user id is in pending_requests and in
\* active_sessions at once, so every user is in exactly one of Unrequested,
\* Pending, Active.
C1_OneStatePerUser ==
    /\ pending_requests \cap active_sessions = {}
    /\ \A u \in Users :
          Cardinality({x \in {"U", "P", "A"} :
                         \/ x = "U" /\ Unrequested(u)
                         \/ x = "P" /\ Pending(u)
                         \/ x = "A" /\ Active(u)}) = 1

\* A pending user was force-connected while another user is still pending.
C1_Witness ==
    /\ last.h = "connect" /\ last.result = "Connected"
    /\ Active(last.uid)
    /\ \E v \in Users : v # last.uid /\ Pending(v)

\* C2: an approve, reject or operator-end button or a /connect command whose
\* sender is not the operator leaves pending_requests and active_sessions
\* unchanged.
C2_OperatorOnly ==
    [][\A sender \in Users, uid \in Users :
          (/\ last'.sender = sender
           /\ \/ AdminAccept(TRUE, sender, uid)
              \/ AdminReject(TRUE, sender, uid)
              \/ AdminEnd(TRUE, sender, uid)
              \/ \E h \in {"admin_accept", "admin_reject", "admin_end"} :
                    BadId(TRUE, h, sender)
              \/ ConnectIgnored(TRUE, sender)
              \/ ConnectCmd(TRUE, sender, uid))
          => UNCHANGED registry]_vars

\* C3: a request of an Unrequested user makes the user Pending with outcome
\* Accepted; a request of a Pending user has outcome AlreadyPending and a
\* request of an Active user has outcome AlreadyActive, and these two change
\* neither the registry nor the routing maps.
C3_Request ==
    [][\A u \in Users :
          (last'.h = "user_apply" /\ last'.uid = u /\ UserApply(TRUE, u)) =>
             /\ Unrequested(u) =>
                   /\ last'.result = "Accepted"
                   /\ Texts(last'.out) \cap {"already_applied", "already_in_session"} = {}
                   /\ "apply_sent" \in Texts(last'.out)
                   /\ pending_requests' = pending_requests \cup {u}
                   /\ UNCHANGED <<active_sessions, routing>>
             /\ Pending(u) =>
                   /\ last'.result = "AlreadyPending"
                   /\ Texts(last'.out) = {"already_applied"}
                   /\ UNCHANGED <<registry, routing>>
             /\ Active(u) =>
                   /\ last'.result = "AlreadyActive"
                   /\ Texts(last'.out) = {"already_in_session"}
                   /\ UNCHANGED <<registry, routing>>]_vars

\* A Pending user has requested again.
C3_Witness ==
    /\ last.h = "user_apply" /\ last.result = "AlreadyPending"
    /\ Pending(last.uid)

\* C4: the operator's approve of a Pending user makes the user Active and
\* takes the user out of the pending set; an approve of a user who is not
\* Pending, as after that approval, says "already processed" and changes
\* nothing, so the user stays Active.
C4_Approve ==
    [][\A u \in Users :
          (/\ last'.h = "admin_accept" /\ last'.uid = u
           /\ AdminAccept(TRUE, ADMIN_ID, u)) =>
             /\ u \in pending_requests =>
                   /\ last'.result = "Approved"
                   /\ pending_requests' = pending_requests \ {u}
                   /\ active_sessions' = active_sessions \cup {u}
                   /\ Active(u)'
                   /\ approve(pending_requests', active_sessions', u)
                         = Reg(pending_requests', active_sessions', "NotPending")
             /\ u \notin pending_requests =>
                   /\ last'.result = "NotPending"
                   /\ Texts(last'.out) = {"not_pending"}
                   /\ UNCHANGED registry]_vars

\* The operator has approved a user who is Active already.
C4_Witness ==
    /\ last.h = "admin_accept" /\ last.sender = ADMIN_ID
    /\ last.result = "NotPending"
    /\ Active(last.uid)

\* C5: /connect <id> sent by the operator ends with the user Active and not
\* Pending, from Unrequested, Pending and Active alike, and whether or not
\* the notification to the user is delivered.
C5_ForceConnect ==
    [][\A u \in Users :
          (last'.h = "connect" /\ last'.uid = u /\ ConnectCmd(TRUE, ADMIN_ID, u)) =>
             /\ last'.result = "Connected"
             /\ u \in active_sessions'
             /\ u \notin pending_requests'
             /\ \A v \in Users \ {u} :
                   /\ (v \in active_sessions') = (v \in active_sessions)
                   /\ (v \in pending_requests') = (v \in pending_requests)]_vars

\* The operator has connected a user and the notification to the user failed.
C5_Witness ==
    /\ last.h = "connect" /\ last.result = "Connected"
    /\ Msg(last.uid, "connected_user", "none", FALSE) \in last.out
    /\ Active(last.uid)

\* C6: for a user who is Unrequested, a request followed by a cancel gives
\* back the pending set and the active set as they were, and neither step
\* touches a routing map.
C6_RoundTrip ==
    /\ [](\A u \in Users :
            Unrequested(u) =>
               LET r1 == requestConnection(pending_requests, active_sessions, u)
                   r2 == cancelRequest(r1.pending, r1.active, u)
               IN /\ r1.result = "Accepted"
                  /\ u \in r1.pending
                  /\ r2 = Reg(pending_requests, active_sessions, "Cancelled"))
    /\ [][\A u \in Users :
            /\ (last'.h = "user_apply" /\ last'.uid = u /\ UserApply(TRUE, u)) =>
                  /\ UNCHANGED <<routing, admin_chat>>
                  /\ Reg(pending_requests', active_sessions', last'.result)
                        = requestConnection(pending_requests, active_sessions, u)
            /\ (last'.h = "user_cancel" /\ last'.uid = u /\ UserCancel(TRUE, u)) =>
                  /\ UNCHANGED <<routing, admin_chat>>
                  /\ Reg(pending_requests', active_sessions', last'.result)
                        = cancelRequest(pending_requests, active_sessions, u)]_vars

\* A user has cancelled while another user is pending or active and the
\* routing maps hold entries.
C6_Witness ==
    /\ last.h = "user_cancel" /\ last.result = "Cancelled"
    /\ Unrequested(last.uid)
    /\ \E v \in Users : v # last.uid /\ ~Unrequested(v)
    /\ DOMAIN admin_msgid_to_user # {}

\* C7: an end by the user or by the operator makes an Active user
\* Unrequested, and in every reachable state a request of an Unrequested user
\* can be taken and makes the user Pending.
C7_NoTerminalState ==
    /\ [](\A u \in Users :
            Unrequested(u) => ENABLED (UserApply(TRUE, u) /\ Pending(u)'))
    /\ [][\A u \in Users :
            /\ (/\ last'.h = "user_end" /\ last'.uid = u
                /\ UserEnd(TRUE, u) /\ Active(u)) =>
                  last'.result = "Ended" /\ Unrequested(u)'
            /\ (/\ last'.h = "admin_end" /\ last'.uid = u
                /\ AdminEnd(TRUE, ADMIN_ID, u) /\ Active(u)) =>
                  last'.result = "Ended" /\ Unrequested(u)'
            /\ (/\ last'.h = "user_apply" /\ last'.uid = u
                /\ UserApply(TRUE, u) /\ Unrequested(u)) =>
                  last'.result = "Accepted" /\ Pending(u)']_vars

\* A user whose earlier session relayed a message has requested again.
C7_Witness ==
    /\ last.h = "user_apply" /\ last.result = "Accepted"
    /\ Pending(last.uid)
    /\ last.uid \in DOMAIN user_last_admin_msgid

\* C8: the handler hands a user's plain message to msg.copy for the
\* operator's chat if and only if the sender is Active; for a Pending sender
\* it sends the wait-or-cancel reminder, for an Unrequested sender the prompt
\* to apply, and in both cases it copies nothing and changes neither the
\* registry nor the routing maps.
C8_UserMessage ==
    [][\A u \in Users :
          (last'.h = "message" /\ last'.sender = u /\ MessageFromUser(u)) =>
             /\ (\E x \in last'.out : x.text = "copy")
                   <=> (u \in active_sessions)
             /\ \A x \in last'.out : x.text = "copy" => x.to = ADMIN_ID
             /\ Pending(u) =>
                   /\ \E ok \in BOOLEAN :
                         last'.out = {Msg(u, "wait_or_cancel", "user_cancel", ok)}
                   /\ UNCHANGED <<registry, routing, admin_chat>>
             /\ Unrequested(u) =>
                   /\ \E ok \in BOOLEAN :
                         last'.out = {Msg(u, "please_apply", "user_apply", ok)}
                   /\ UNCHANGED <<registry, routing, admin_chat>>]_vars

\* A user without a request has sent a message and got the prompt to apply.
C8_Witness ==
    /\ last.h = "message" /\ last.result = "Unrequested"
    /\ Unrequested(last.uid)
    /\ "please_apply" \in Texts(last.out)

\* C9: when the copy of an Active user's message to the operator fails, the
\* handler sends the failure report to that user, the user stays Active and
\* no routing entry or back-reference is added or changed.
C9_RelayFailure ==
    [][\A u \in Users :
          (/\ last'.h = "message" /\ last'.sender = u
           /\ MessageFromUser(u) /\ u \in active_sessions
           /\ Msg(ADMIN_ID, "copy", "none", FALSE) \in last'.out) =>
             /\ last'.result = "RelayFailed"
             /\ \E x \in last'.out : x.text = "relay_failed" /\ x.to = u
             /\ u \in active_sessions'
             /\ UNCHANGED <<registry, routing, admin_chat>>]_vars

\* The copy of an Active user's message has failed.
C9_Witness ==
    /\ last.h = "message" /\ last.result = "RelayFailed"
    /\ Active(last.uid)
    /\ \E x \in last.out : x.text = "relay_failed" /\ x.to = last.uid

\* C10: a relayed id resolves to the user whose message was copied under it,
\* recording a relay changes the resolution of no other id, and an operator
\* reply in flight, whatever else is in flight, goes to the user whose
\* message created the id it replies to and touches nobody else's entry.
C10_NoCrossTalk ==
    /\ [](\A m \in DOMAIN admin_msgid_to_user :
            /\ m \in 1..Len(admin_chat)
            /\ resolveUser(admin_msgid_to_user, m) = {admin_chat[m]})
    /\ [](\A m \in 1..Len(admin_chat) :
            resolveUser(admin_msgid_to_user, m) = {admin_chat[m]})
    /\ [](\A c \in copying :
            c.from = ADMIN_ID =>
               /\ c.reply \in 1..Len(admin_chat)
               /\ c.to = admin_chat[c.reply])
    /\ [][\A m \in DOMAIN admin_msgid_to_user :
            resolveUser(admin_msgid_to_user', m)
               = resolveUser(admin_msgid_to_user, m)]_vars
    /\ [][\A c \in copying :
            (c.from = ADMIN_ID /\ AdminCopyDone(c)) =>
               \A v \in DOMAIN user_last_admin_msgid \ {c.to} :
                  /\ v \in DOMAIN user_last_admin_msgid'
                  /\ user_last_admin_msgid'[v] = user_last_admin_msgid[v]]_vars

\* Two users are Active and a reply to each one's relayed message is in
\* flight at once.
C10_Witness ==
    /\ \A u \in Users : Active(u)
    /\ \E c1, c2 \in copying :
          /\ c1.from = ADMIN_ID /\ c2.from = ADMIN_ID
          /\ c1.to # c2.to
          /\ admin_chat[c1.reply] = c1.to
          /\ admin_chat[c2.reply] = c2.to

\* C11: for every user with a back-reference, the back-reference is the id
\* under which that user's most recent message was copied to the operator's
\* chat, and the routing table resolves it to that user.
C11_BackReference ==
    \A u \in DOMAIN user_last_admin_msgid :
       LET relayed == {m \in 1..Len(admin_chat) : admin_chat[m] = u}
       IN /\ relayed # {}
          /\ user_last_admin_msgid[u] \in relayed
          /\ \A m \in relayed : m <= user_last_admin_msgid[u]
          /\ resolveUser(admin_msgid_to_user, user_last_admin_msgid[u]) = {u}

\* C12: /connect <id> makes a user who has no request Active; the plain
\* message that user sends next is handed to msg.copy for the operator's
\* chat and, once copied, its new id is recorded as resolving to that user;
\* from then on an operator reply to that id resolves to that user and is
\* copied to that user's chat and to no other.
C12_ForceConnectThenRelay ==
    /\ [][\A u \in Users :
            (/\ last'.h = "connect" /\ last'.uid = u
             /\ ConnectCmd(TRUE, ADMIN_ID, u) /\ Unrequested(u)) =>
               Active(u)']_vars
    /\ [][\A u \in Users :
            (/\ last.h = "connect" /\ last.uid = u
             /\ last.result = "Connected"
             /\ last'.h = "message" /\ last'.sender = u
             /\ MessageFromUser(u)) =>
               /\ \E x \in last'.out : x.text = "copy" /\ x.to = ADMIN_ID
               /\ Msg(ADMIN_ID, "copy", "none", TRUE) \in last'.out =>
                     LET new_id == Len(admin_chat')
                     IN /\ new_id \notin DOMAIN admin_msgid_to_user
                        /\ admin_chat'[new_id] = u
                        /\ resolveUser(admin_msgid_to_user', new_id) = {u}]_vars
    /\ [][\A m \in DOMAIN admin_msgid_to_user :
            (/\ last'.h = "message" /\ last'.sender = ADMIN_ID
             /\ last'.uid \in resolveUser(admin_msgid_to_user, m)
             /\ MessageFromAdmin(m)) =>
               /\ last'.uid = admin_chat[m]
               /\ \E x \in last'.out : x.text = "copy" /\ x.to = admin_chat[m]
               /\ \A x \in last'.out : x.text = "copy" => x.to = admin_chat[m]
               /\ m \in DOMAIN admin_msgid_to_user'
               /\ admin_msgid_to_user'[m] = admin_chat[m]]_vars

\* The operator's reply to the first message of a connected user, the only
\* message relayed so far, has been copied to that user.
C12_Witness ==
    /\ last.h = "message" /\ last.sender = ADMIN_ID /\ last.result = "Replied"
    /\ Msg(last.uid, "copy", "none", TRUE) \in last.out
    /\ Active(last.uid)
    /\ pending_requests = {} /\ active_sessions = {last.uid}
    /\ admin_chat = <<last.uid>>
    /\ resolveUser(admin_msgid_to_user, 1) = {last.uid}

\* C13: a command or button step that changes a user's session state sends
\* something to the operator and, unless it is the user's own cancel or end,
\* something to that user; a step that leaves the user's session state as it
\* was sends nothing to anybody but the sender of the event.
C13_Notifications ==
    [][\A u \in Users :
          (/\ last'.uid = u
           /\ last'.h \in {"connect", "user_apply", "user_cancel", "user_end",
                           "admin_accept", "admin_reject", "admin_end"}) =>
             LET changed == \/ (u \in pending_requests') # (u \in pending_requests)
                            \/ (u \in active_sessions') # (u \in active_sessions)
             IN /\ changed =>
                      /\ \E x \in last'.out : x.to = ADMIN_ID
                      /\ last'.h \notin {"user_cancel", "user_end"} =>
                            \E x \in last'.out : x.to = u
                /\ ~changed => \A x \in last'.out : x.to = last'.sender]_vars

\* The keyboards user_main_keyboard can give.
UserMenus == {user_main_keyboard(p, a) : p, a \in BOOLEAN}

\* C14: the answer a user gets to a request made while Active or Pending, to
\* a cancel made while not Pending, to an end made while not Active, and to a
\* message whose copy failed, is a text together with one of the user menus.
C14_FailureHasMenu ==
    (/\ last.sender \in Users
     /\ \/ last.h = "user_apply"
           /\ last.result \in {"AlreadyActive", "AlreadyPending"}
        \/ last.h = "user_cancel" /\ last.result = "NotPending"
        \/ last.h = "user_end" /\ last.result = "NotActive"
        \/ last.h = "message" /\ last.result = "RelayFailed")
    => /\ \E x \in last.out : x.to = last.sender
       /\ \A x \in last.out : x.to = last.sender => x.menu \in UserMenus

\* The registry after the first n handled steps, had they been taken one
\* after the other from the empty registry.
RECURSIVE RegAfter(_)
RegAfter(n) ==
    IF n = 0 THEN Reg({}, {}, "Started")
    ELSE LET before == RegAfter(n - 1)
         IN Outcome(handled[n], before.pending, before.active)

\* The request notifications step n sent to the operator.
Requests(n) == {x \in handled[n].out : x.to = ADMIN_ID /\ x.text = "new_request"}

C16_InvalidReference ==
    [][\A sender \in Ids :
          (/\ last'.sender = sender
           /\ \/ \E h \in {"admin_accept", "admin_reject", "admin_end"} :
                    last'.h = h /\ BadId(TRUE, h, sender)
              \/ last'.h = "connect" /\ ConnectBadArgs(TRUE, sender, "text")
              \/ last'.h = "unrecognized" /\ Unrecognized(TRUE, sender)
              \/ /\ last'.h = "message" /\ sender = ADMIN_ID
                 /\ \E reply \in 0..MaxMsgId :
                       /\ resolveUser(admin_msgid_to_user, reply) = {}
                       /\ MessageFromAdmin(reply)
              \/ \E uid \in Users :
                    /\ last'.uid = uid
                    /\ \/ /\ last'.h = "admin_accept"
                          /\ uid \notin pending_requests
                          /\ AdminAccept(TRUE, sender, uid)
                       \/ /\ last'.h = "admin_reject"
                          /\ uid \notin pending_requests
                          /\ AdminReject(TRUE, sender, uid)
                       \/ /\ last'.h = "user_cancel" /\ sender = uid
                          /\ uid \notin pending_requests
                          /\ UserCancel(TRUE, uid)
                       \/ /\ last'.h = "admin_end"
                          /\ uid \notin active_sessions
                          /\ AdminEnd(TRUE, sender, uid)
                       \/ /\ last'.h = "user_end" /\ sender = uid
                          /\ uid \notin active_sessions
                          /\ UserEnd(TRUE, uid))
          => /\ UNCHANGED <<registry, routing, admin_chat>>
             /\ last'.out # {}
             /\ \A x \in last'.out : x.to = sender]_vars

\* The operator has rejected a user who is Active and has relayed a message,
\* while the other user is Pending.
C16_Witness ==
    /\ last.h = "admin_reject" /\ last.sender = ADMIN_ID
    /\ last.result = "NotPending"
    /\ Active(last.uid)
    /\ last.uid \in DOMAIN user_last_admin_msgid
    /\ \E v \in Users : Pending(v)

\* C17: a user menu sent to a user in answer to that user's own button or
\* plain message is the menu of the user's session state at that moment:
\* the end button when Active, the cancel button when Pending, the apply
\* button when Unrequested.
C17_MenuMatchesState ==
    (/\ last.sender \in Users
     /\ last.h \in {"user_apply", "user_cancel", "user_end", "message"})
    => \A x \in last.out :
          (x.to = last.sender /\ x.menu \in UserMenus) =>
             x.menu = user_main_keyboard(last.sender \in pending_requests,
                                         last.sender \in active_sessions)

\* C18: an operator reply is copied to a user's chat only if that user is in
\* active_sessions when the reply is handled.
C18_ReplyOnlyToActive ==
    (last.h = "message" /\ last.sender = ADMIN_ID) =>
       \A u \in Users :
          Msg(u, "copy", "none", TRUE) \in last.out => u \in active_sessions

\* C19: an id that resolves to a user resolves to that user after every
\* step, no back-reference is deleted, and the command and the button
\* branches, whatever they do to the registry, change neither routing map.
C19_RoutingPermanent ==
    /\ [][\A m \in DOMAIN admin_msgid_to_user :
            /\ m \in DOMAIN admin_msgid_to_user'
            /\ admin_msgid_to_user'[m] = admin_msgid_to_user[m]]_vars
    /\ [][DOMAIN user_last_admin_msgid \subseteq DOMAIN user_last_admin_msgid']_vars
    /\ [][last'.h \in {"connect", "callback", "unrecognized",
                       "user_apply", "user_cancel", "user_end",
                       "admin_accept", "admin_reject", "admin_end"}
            => UNCHANGED <<routing, admin_chat>>]_vars

\* A user whose message was relayed has since been rejected, and the id
\* still resolves to that user, while an id of the other user resolves to
\* the other user.
C19_Witness ==
    /\ last.h = "admin_reject" /\ last.result = "Rejected"
    /\ Unrequested(last.uid)
    /\ \E m \in MsgIds : resolveUser(admin_msgid_to_user, m) = {last.uid}
    /\ \E m \in MsgIds, v \in Users :
          v # last.uid /\ resolveUser(admin_msgid_to_user, m) = {v}

\* C20: an operator reply whose target resolves to a user sends the operator
\* exactly one of the acknowledgement and the failure report: the failure
\* report only if the copy to the user failed, the acknowledgement only if
\* it succeeded; the back-reference changes only if the copy succeeded, and
\* the registry does not change.
C20_AckOrFailure ==
    [][\A reply \in DOMAIN admin_msgid_to_user :
          (/\ last'.h = "message" /\ last'.sender = ADMIN_ID
           /\ MessageFromAdmin(reply)) =>
             LET acks == {x \in last'.out : x.text = "sent_to_user"}
                 failures == {x \in last'.out : x.text = "send_failed"}
                 copied == Msg(last'.uid, "copy", "none", TRUE) \in last'.out
             IN /\ Cardinality(acks) + Cardinality(failures) = 1
                /\ failures # {} => ~copied
                /\ acks # {} => copied
                /\ ~copied => UNCHANGED user_last_admin_msgid
                /\ UNCHANGED registry]_vars

====
